---- MODULE Spec2Model ----
(* A model of loxi, a tree-walking interpreter for Lox:                      *)
(*   - the value model and its operators   (loxi/src/interp/value.rs)        *)
(*   - the token spellings                 (loxi/src/lex/token.rs)           *)
(*   - the scanner                         (loxi/src/lex, from its contract) *)
(*   - statement execution                 (loxi/src/parse/stmt.rs,          *)
(*                                          loxi/src/interp/mod.rs)          *)
(*   - the driver                          (loxi/src/lib.rs)                 *)
EXTENDS Integers, Sequences, FiniteSets, TLC

VARIABLES
    arena,      \* the string arena (lasso::Rodeo): the interned texts, a Spur is an index
    op,         \* value model: the operator applied last ("none" before the first)
    lhs,        \* value model: its first operand
    rhs,        \* value model: its second operand (Nil for a unary operator)
    result,     \* value model: what the operator returned: Some(v), None or a panic
    tokKind,    \* token model: the enum converted last
    tokIn,      \* token model: the variant or the text given
    tokOut,     \* token model: the text or the parse result returned
    source,     \* scanner: the source text, a sequence of characters
    pos,        \* scanner: index of the next character to read
    line,       \* scanner: line of the next character
    column,     \* scanner: column of the next character
    tokens,     \* scanner: the tokens emitted so far
    errors,     \* scanner: the lexical errors recorded so far
    scanning,   \* scanner: "idle", "scanning" or "done"
    program,    \* interpreter: the Program given to interpret
    scopes,     \* interpreter: the Env chain, root first, innermost last
    stack,      \* interpreter: the active statement lists (the recursion of execute)
    output,     \* interpreter: the lines printed so far
    status,     \* interpreter: "idle", "running", "failing", "ok" or "error"
    outcome,    \* interpreter: the Result of interpret; while failing, the error on its way up
    executed,   \* interpreter: the statements this interpret call has begun to execute, in order
    given,      \* interpreter: how many statements interpret has been given so far
    stage,      \* driver: where run is: "idle", "scan", "parse" or "returned"
    calls,      \* driver: the stages run has invoked so far, in order
    parsed,     \* driver: the Result of Parser::parse (Ok(Unit) before the parser has run)
    reported    \* driver: what run has printed so far, one entry per print

valueVars == <<arena, op, lhs, rhs, result>>
tokenVars == <<tokKind, tokIn, tokOut>>
lexVars == <<source, pos, line, column, tokens, errors, scanning>>
interpVars == <<program, scopes, stack, output, status, outcome, executed, given>>
driverVars == <<stage, calls, parsed, reported>>
vars == <<valueVars, tokenVars, lexVars, interpVars, driverVars>>

----------------------------------------------------------------------------
(* Bounds of the model.                                                      *)

\* Number literals range over -MaxNum .. MaxNum (and the two infinities and NaN).
MaxNum == 1
\* Texts are the character sequences over TextChars of at most this length.
MaxTextLen == 1
\* The arena holds at most this many interned texts.
MaxArena == 2
\* The programs given to an interpreter hold at most this many statements in all.
MaxNodes == 3
\* The sources given to the scanner are the character sequences over SourceChars
\* of at most this length (and the hello-world source of the scanner's test).
MaxSrcLen == 3

TextChars == {"a", "b"}

RECURSIVE SeqsUpTo(_, _)
SeqsUpTo(S, n) ==
    IF n = 0 THEN {<<>>}
    ELSE LET shorter == SeqsUpTo(S, n - 1)
         IN  shorter \cup {Append(s, x) : s \in {t \in shorter : Len(t) = n - 1}, x \in S}

Texts == SeqsUpTo(TextChars, MaxTextLen)

----------------------------------------------------------------------------
(* f64.  A number is num/den in lowest terms with den > 0; the zeros are      *)
(* 0/1 (+0.0) and 0/-1 (-0.0); den = 0 encodes the non-finite values: 1/0 is *)
(* +inf, -1/0 is -inf and 0/0 is NaN.  An operation of IEEE 754 returns the  *)
(* double nearest to the exact result: num/den stands for the double         *)
(* nearest to it, which is exact for every operation on the numbers of the   *)
(* model whose result is a double, and holds for a single operation on them  *)
(* otherwise (1/3); such a result is the operand of no later operation.      *)

Abs(n) == IF n < 0 THEN -n ELSE n
Sgn(n) == IF n < 0 THEN -1 ELSE IF n > 0 THEN 1 ELSE 0

RECURSIVE Gcd(_, _)
Gcd(a, b) == IF b = 0 THEN a ELSE Gcd(b, a % b)

F(n, d) == [num |-> n, den |-> d]
Inf == F(1, 0)
NegInf == F(-1, 0)
NaN == F(0, 0)
NegZero == F(0, -1)
IsNaN(x) == x.den = 0 /\ x.num = 0
IsInf(x) == x.den = 0 /\ x.num # 0
IsZero(x) == x.num = 0 /\ x.den # 0
\* f64::is_sign_negative, of a number that is not NaN
IsSignNegative(x) == x.num < 0 \/ (x.num = 0 /\ x.den < 0)

\* n/d with d # 0, in lowest terms with a positive denominator (+0.0 when n = 0)
Norm(n, d) ==
    LET g == Gcd(Abs(n), Abs(d))
    IN  F(Sgn(d) * (n \div g), Abs(d) \div g)

FNeg(x) ==
    IF IsNaN(x) THEN NaN
    ELSE IF IsZero(x) THEN F(0, -x.den)
    ELSE F(-x.num, x.den)

\* x, a zero or an infinity, with the sign given
Signed(negative, x) == IF negative = IsSignNegative(x) THEN x ELSE FNeg(x)

\* a sum that is zero is -0.0 only when both operands are -0.0
FAdd(x, y) ==
    IF IsNaN(x) \/ IsNaN(y) THEN NaN
    ELSE IF IsInf(x) /\ IsInf(y) THEN (IF x.num = y.num THEN x ELSE NaN)
    ELSE IF IsInf(x) THEN x
    ELSE IF IsInf(y) THEN y
    ELSE LET n == x.num * Abs(y.den) + y.num * Abs(x.den)
         IN  IF n = 0 THEN Signed(x = NegZero /\ y = NegZero, F(0, 1))
             ELSE Norm(n, Abs(x.den) * Abs(y.den))

FSub(x, y) == FAdd(x, FNeg(y))

\* the sign of a product or a quotient is negative when one operand's sign is
FMul(x, y) ==
    LET negative == IsSignNegative(x) # IsSignNegative(y)
    IN  IF IsNaN(x) \/ IsNaN(y) THEN NaN
        ELSE IF IsInf(x) \/ IsInf(y)
             THEN (IF IsZero(x) \/ IsZero(y) THEN NaN ELSE Signed(negative, Inf))
        ELSE IF IsZero(x) \/ IsZero(y) THEN Signed(negative, F(0, 1))
        ELSE Norm(x.num * y.num, x.den * y.den)

FDiv(x, y) ==
    LET negative == IsSignNegative(x) # IsSignNegative(y)
    IN  IF IsNaN(x) \/ IsNaN(y) THEN NaN
        ELSE IF IsInf(x) /\ IsInf(y) THEN NaN
        ELSE IF IsInf(x) THEN Signed(negative, Inf)
        ELSE IF IsInf(y) THEN Signed(negative, F(0, 1))
        ELSE IF IsZero(y) THEN (IF IsZero(x) THEN NaN ELSE Signed(negative, Inf))
        ELSE IF IsZero(x) THEN Signed(negative, F(0, 1))
        ELSE Norm(x.num * y.den, x.den * y.num)

\* IEEE comparisons: every comparison with NaN is false, except that NaN # NaN;
\* the two zeros are equal
FEq(x, y) == ~IsNaN(x) /\ ~IsNaN(y) /\ (x = y \/ (IsZero(x) /\ IsZero(y)))
FLt(x, y) ==
    /\ ~IsNaN(x) /\ ~IsNaN(y)
    /\ IF IsInf(x) \/ IsInf(y)
       THEN x # y /\ (x = NegInf \/ y = Inf)
       ELSE x.num * Abs(y.den) < y.num * Abs(x.den)
FLe(x, y) == FLt(x, y) \/ FEq(x, y)
FGt(x, y) == FLt(y, x)
FGe(x, y) == FLe(y, x)

Floats == {F(n, 1) : n \in -MaxNum .. MaxNum} \cup {NegZero, Inf, NegInf, NaN}

----------------------------------------------------------------------------
(* enum Value                                                                *)

Nil == [t |-> "Nil"]
Bool(b) == [t |-> "Bool", b |-> b]
Number(x) == [t |-> "Number", n |-> x]
String(s) == [t |-> "String", s |-> s]
Object(o) == [t |-> "Object", id |-> o]
Function(f) == [t |-> "Function", id |-> f]
NativeFunction(f) == [t |-> "NativeFunction", id |-> f]
StringLiteral(spur) == [t |-> "StringLiteral", spur |-> spur]

\* Option<Value>; a panic (unimplemented!()) aborts the call
Some(v) == [k |-> "Some", v |-> v]
None == [k |-> "None"]
Panic == [k |-> "Panic"]

\* Rodeo::resolve: the text a Spur stands for
resolve(ar, spur) == ar[spur]

\* Rodeo::get_or_intern: the Spur of a text, interned when it is new
HasText(ar, s) == \E i \in 1 .. Len(ar) : ar[i] = s
SpurOf(ar, s) == CHOOSE i \in 1 .. Len(ar) : ar[i] = s
get_or_intern(ar, s) == IF HasText(ar, s) THEN ar ELSE Append(ar, s)

\* the values that exist over an arena
Values(ar) ==
    {Nil, Bool(TRUE), Bool(FALSE), Object(1), Object(2), Function(1), NativeFunction(1)}
        \cup {Number(x) : x \in Floats}
        \cup {String(s) : s \in Texts}
        \cup {StringLiteral(i) : i \in 1 .. Len(ar)}

IsString(v) == v.t \in {"String", "StringLiteral"}
\* the text of a string-typed value
TextOf(ar, v) == IF v.t = "String" THEN v.s ELSE resolve(ar, v.spur)

\* truthiness with zero falsy, as in C
truthiness_ZeroFalsy(v) ==
    CASE v.t = "Nil" -> FALSE
      [] v.t = "Bool" -> v.b
      [] v.t = "Number" -> ~FEq(v.n, F(0, 1))
      [] OTHER -> TRUE

truthiness(v) ==
    CASE v.t = "Nil" -> FALSE
      [] v.t = "Bool" -> v.b
      [] OTHER -> TRUE

not(v) == Some(Bool(~truthiness(v)))

minus(v) ==
    CASE v.t = "Number" -> Some(Number(FNeg(v.n)))
      [] OTHER -> None

add(a, b, ar) ==
    CASE a.t = "Number" /\ b.t = "Number" -> Some(Number(FAdd(a.n, b.n)))
      [] a.t = "String" /\ b.t = "String" -> Some(String(a.s \o b.s))
      [] a.t = "String" /\ b.t = "StringLiteral" -> Some(String(a.s \o resolve(ar, b.spur)))
      [] OTHER -> None

sub(a, b) ==
    CASE a.t = "Number" /\ b.t = "Number" -> Some(Number(FSub(a.n, b.n)))
      [] OTHER -> None

mul(a, b) ==
    CASE a.t = "Number" /\ b.t = "Number" -> Some(Number(FMul(a.n, b.n)))
      [] OTHER -> None

\* div refusing a zero divisor
div_ZeroChecked(a, b) ==
    CASE a.t = "Number" /\ b.t = "Number" /\ b.n.num # 0 -> Some(Number(FDiv(a.n, b.n)))
      [] OTHER -> None

div(a, b) ==
    CASE a.t = "Number" /\ b.t = "Number" -> Some(Number(FDiv(a.n, b.n)))
      [] OTHER -> None

\* eq without the StringLiteral/String arm
eq_NoLiteralStringArm(a, b, ar) ==
    CASE a.t = "Nil" /\ b.t = "Nil" -> Some(Bool(TRUE))
      [] a.t = "Bool" /\ b.t = "Bool" -> Some(Bool(a.b = b.b))
      [] a.t = "Number" /\ b.t = "Number" -> Some(Bool(FEq(a.n, b.n)))
      [] a.t = "String" /\ b.t = "String" -> Some(Bool(a.s = b.s))
      [] a.t = "Object" /\ b.t = "Object" -> Panic
      [] a.t = "String" /\ b.t = "StringLiteral" -> Some(Bool(a.s = resolve(ar, b.spur)))
      [] a.t = "StringLiteral" /\ b.t = "StringLiteral" -> Some(Bool(a.spur = b.spur))
      [] OTHER -> Some(Bool(FALSE))

\* eq with Nil/Nil left to the catch-all arm
eq_NilUnequal(a, b, ar) ==
    CASE a.t = "Bool" /\ b.t = "Bool" -> Some(Bool(a.b = b.b))
      [] a.t = "Number" /\ b.t = "Number" -> Some(Bool(FEq(a.n, b.n)))
      [] a.t = "String" /\ b.t = "String" -> Some(Bool(a.s = b.s))
      [] a.t = "Object" /\ b.t = "Object" -> Panic
      [] a.t = "String" /\ b.t = "StringLiteral" -> Some(Bool(a.s = resolve(ar, b.spur)))
      [] a.t = "StringLiteral" /\ b.t = "String" -> Some(Bool(resolve(ar, a.spur) = b.s))
      [] a.t = "StringLiteral" /\ b.t = "StringLiteral" -> Some(Bool(a.spur = b.spur))
      [] OTHER -> Some(Bool(FALSE))

eq(a, b, ar) ==
    CASE a.t = "Nil" /\ b.t = "Nil" -> Some(Bool(TRUE))
      [] a.t = "Bool" /\ b.t = "Bool" -> Some(Bool(a.b = b.b))
      [] a.t = "Number" /\ b.t = "Number" -> Some(Bool(FEq(a.n, b.n)))
      [] a.t = "String" /\ b.t = "String" -> Some(Bool(a.s = b.s))
      [] a.t = "Object" /\ b.t = "Object" -> Panic
      [] a.t = "String" /\ b.t = "StringLiteral" -> Some(Bool(a.s = resolve(ar, b.spur)))
      [] a.t = "StringLiteral" /\ b.t = "String" -> Some(Bool(resolve(ar, a.spur) = b.s))
      [] a.t = "StringLiteral" /\ b.t = "StringLiteral" -> Some(Bool(a.spur = b.spur))
      [] OTHER -> Some(Bool(FALSE))

\* self.eq(other, arena)?.not(): None is passed on by `?`, a panic aborts
\* neq without the negation
neq_NotNegated(a, b, ar) == eq(a, b, ar)

neq(a, b, ar) ==
    LET e == eq(a, b, ar)
    IN  IF e.k = "Some" THEN not(e.v) ELSE e

gt(a, b) ==
    CASE a.t = "Number" /\ b.t = "Number" -> Some(Bool(FGt(a.n, b.n)))
      [] OTHER -> None

ge(a, b) ==
    CASE a.t = "Number" /\ b.t = "Number" -> Some(Bool(FGe(a.n, b.n)))
      [] OTHER -> None

lt(a, b) ==
    CASE a.t = "Number" /\ b.t = "Number" -> Some(Bool(FLt(a.n, b.n)))
      [] OTHER -> None

le(a, b) ==
    CASE a.t = "Number" /\ b.t = "Number" -> Some(Bool(FLe(a.n, b.n)))
      [] OTHER -> None

name(v) ==
    CASE v.t = "Nil" -> "<nil>"
      [] v.t = "Bool" -> "<bool>"
      [] v.t = "Number" -> "<number>"
      [] v.t \in {"String", "StringLiteral"} -> "<string>"
      [] v.t = "Object" -> "<object>"
      [] OTHER -> "<function>"

----------------------------------------------------------------------------
(* The value model as a machine: texts are interned, operators are applied.  *)

Intern ==
    /\ op = "none"
    /\ \E s \in Texts :
        /\ HasText(arena, s) \/ Len(arena) < MaxArena
        /\ arena' = get_or_intern(arena, s)
        /\ op' = "intern"
        /\ lhs' = String(s)
        /\ rhs' = Nil
        /\ result' = Some(StringLiteral(SpurOf(arena', s)))
    /\ UNCHANGED <<tokenVars, lexVars, interpVars, driverVars>>

Apply(o, a, b, r) ==
    /\ op' = o
    /\ lhs' = a
    /\ rhs' = b
    /\ result' = r
    /\ UNCHANGED <<arena, tokenVars, lexVars, interpVars, driverVars>>

Truthiness == op = "none" /\ \E a \in Values(arena) : Apply("truthiness", a, Nil, Some(Bool(truthiness(a))))
Not == op = "none" /\ \E a \in Values(arena) : Apply("!", a, Nil, not(a))
Minus == op = "none" /\ \E a \in Values(arena) : Apply("minus", a, Nil, minus(a))
Add == op = "none" /\ \E a, b \in Values(arena) : Apply("+", a, b, add(a, b, arena))
Sub == op = "none" /\ \E a, b \in Values(arena) : Apply("-", a, b, sub(a, b))
Mul == op = "none" /\ \E a, b \in Values(arena) : Apply("*", a, b, mul(a, b))
Div == op = "none" /\ \E a, b \in Values(arena) : Apply("/", a, b, div(a, b))
Eq == op = "none" /\ \E a, b \in Values(arena) : Apply("==", a, b, eq(a, b, arena))
Neq == op = "none" /\ \E a, b \in Values(arena) : Apply("!=", a, b, neq(a, b, arena))
Gt == op = "none" /\ \E a, b \in Values(arena) : Apply(">", a, b, gt(a, b))
Ge == op = "none" /\ \E a, b \in Values(arena) : Apply(">=", a, b, ge(a, b))
Lt == op = "none" /\ \E a, b \in Values(arena) : Apply("<", a, b, lt(a, b))
Le == op = "none" /\ \E a, b \in Values(arena) : Apply("<=", a, b, le(a, b))

\* the call returns: the machine is ready for the next one
Return ==
    /\ op # "none"
    /\ op' = "none"
    /\ lhs' = Nil
    /\ rhs' = Nil
    /\ result' = None
    /\ UNCHANGED <<arena, tokenVars, lexVars, interpVars, driverVars>>

ValueNext ==
    \/ Return
    \/ Intern
    \/ Truthiness \/ Not \/ Minus
    \/ Add \/ Sub \/ Mul \/ Div
    \/ Eq \/ Neq
    \/ Gt \/ Ge \/ Lt \/ Le

----------------------------------------------------------------------------
(* Token spellings: Into<char> / TryFrom<char> for Punctuation and           *)
(* Into<&str> / TryFrom<&str> for Operator and Keyword.                      *)

Ok(v) == [k |-> "Ok", v |-> v]
Err(e) == [k |-> "Err", e |-> e]
InvalidToken == Err("InvalidToken")

Punctuation ==
    {"ParenLeft", "ParenRight", "BraceLeft", "BraceRight", "Comma", "Dot", "Semicolon"}

Operator ==
    {"Bang", "BangEqual", "Equal", "EqualEqual", "Greater", "GreaterEqual",
     "Less", "LessEqual", "Plus", "Minus", "Star", "Slash"}

Keyword ==
    {"True", "False", "And", "Or", "Class", "If", "Else", "For", "While", "Fun",
     "Nil", "Print", "Return", "Super", "This", "Var"}

PunctuationInto(p) ==
    CASE p = "ParenLeft" -> "("
      [] p = "ParenRight" -> ")"
      [] p = "BraceLeft" -> "{"
      [] p = "BraceRight" -> "}"
      [] p = "Comma" -> ","
      [] p = "Dot" -> "."
      [] p = "Semicolon" -> ";"

PunctuationTryFrom(c) ==
    CASE c = "(" -> Ok("ParenLeft")
      [] c = ")" -> Ok("ParenRight")
      [] c = "{" -> Ok("BraceLeft")
      [] c = "}" -> Ok("BraceRight")
      [] c = "," -> Ok("Comma")
      [] c = "." -> Ok("Dot")
      [] c = ";" -> Ok("Semicolon")
      [] OTHER -> InvalidToken

OperatorInto(o) ==
    CASE o = "Bang" -> "!"
      [] o = "BangEqual" -> "!="
      [] o = "Equal" -> "="
      [] o = "EqualEqual" -> "=="
      [] o = "Greater" -> ">"
      [] o = "GreaterEqual" -> ">="
      [] o = "Less" -> "<"
      [] o = "LessEqual" -> "<="
      [] o = "Minus" -> "-"
      [] o = "Plus" -> "+"
      [] o = "Slash" -> "/"
      [] o = "Star" -> "*"

\* Operator::try_from with "-" and "+" exchanged
OperatorTryFrom_Swapped(s) ==
    CASE s = "!" -> Ok("Bang")
      [] s = "!=" -> Ok("BangEqual")
      [] s = "=" -> Ok("Equal")
      [] s = "==" -> Ok("EqualEqual")
      [] s = ">" -> Ok("Greater")
      [] s = ">=" -> Ok("GreaterEqual")
      [] s = "<" -> Ok("Less")
      [] s = "<=" -> Ok("LessEqual")
      [] s = "-" -> Ok("Plus")
      [] s = "+" -> Ok("Minus")
      [] s = "/" -> Ok("Slash")
      [] s = "*" -> Ok("Star")
      [] OTHER -> InvalidToken

OperatorTryFrom(s) ==
    CASE s = "!" -> Ok("Bang")
      [] s = "!=" -> Ok("BangEqual")
      [] s = "=" -> Ok("Equal")
      [] s = "==" -> Ok("EqualEqual")
      [] s = ">" -> Ok("Greater")
      [] s = ">=" -> Ok("GreaterEqual")
      [] s = "<" -> Ok("Less")
      [] s = "<=" -> Ok("LessEqual")
      [] s = "-" -> Ok("Minus")
      [] s = "+" -> Ok("Plus")
      [] s = "/" -> Ok("Slash")
      [] s = "*" -> Ok("Star")
      [] OTHER -> InvalidToken

KeywordInto(w) ==
    CASE w = "True" -> "true"
      [] w = "False" -> "false"
      [] w = "And" -> "and"
      [] w = "Or" -> "or"
      [] w = "Class" -> "class"
      [] w = "If" -> "if"
      [] w = "Else" -> "else"
      [] w = "For" -> "for"
      [] w = "While" -> "while"
      [] w = "Fun" -> "fun"
      [] w = "Nil" -> "nil"
      [] w = "Print" -> "print"
      [] w = "Return" -> "return"
      [] w = "Super" -> "super"
      [] w = "This" -> "this"
      [] w = "Var" -> "var"

KeywordTryFrom(s) ==
    CASE s = "true" -> Ok("True")
      [] s = "false" -> Ok("False")
      [] s = "and" -> Ok("And")
      [] s = "or" -> Ok("Or")
      [] s = "class" -> Ok("Class")
      [] s = "if" -> Ok("If")
      [] s = "else" -> Ok("Else")
      [] s = "for" -> Ok("For")
      [] s = "while" -> Ok("While")
      [] s = "fun" -> Ok("Fun")
      [] s = "nil" -> Ok("Nil")
      [] s = "print" -> Ok("Print")
      [] s = "return" -> Ok("Return")
      [] s = "super" -> Ok("Super")
      [] s = "this" -> Ok("This")
      [] s = "var" -> Ok("Var")
      [] OTHER -> InvalidToken

\* the characters given to Punctuation::try_from
ProbeChars ==
    {"(", ")", "{", "}", ",", ".", ";", ":", "[", "]", "!", "=", "<", ">",
     "+", "-", "*", "/", "a", "0", " ", "\"", "_"}

\* the texts given to Operator::try_from and Keyword::try_from
ProbeTexts ==
    ProbeChars \cup
    {"!=", "==", ">=", "<=", "=!", "=>", "=<", "===", "!!", "++", "--", "//", "",
     "true", "false", "and", "or", "class", "if", "else", "for", "while", "fun",
     "nil", "print", "return", "super", "this", "var",
     "True", "NIL", "If", "elseif", "function", "printf", "vars", "va", "nul",
     "not", "do", "let", "self", "break", " if", "if "}

TokenOthers == UNCHANGED <<valueVars, lexVars, interpVars, driverVars>>

\* char::from(punctuation)
PunctuationToChar ==
    \E p \in Punctuation :
        /\ tokKind' = "PunctuationInto"
        /\ tokIn' = p
        /\ tokOut' = Ok(PunctuationInto(p))
        /\ TokenOthers

\* Punctuation::try_from(char)
PunctuationParse ==
    \E c \in ProbeChars :
        /\ tokKind' = "PunctuationTryFrom"
        /\ tokIn' = c
        /\ tokOut' = PunctuationTryFrom(c)
        /\ TokenOthers

\* <&str>::from(operator)
OperatorToStr ==
    \E o \in Operator :
        /\ tokKind' = "OperatorInto"
        /\ tokIn' = o
        /\ tokOut' = Ok(OperatorInto(o))
        /\ TokenOthers

\* Operator::try_from(&str)
OperatorParse ==
    \E s \in ProbeTexts :
        /\ tokKind' = "OperatorTryFrom"
        /\ tokIn' = s
        /\ tokOut' = OperatorTryFrom(s)
        /\ TokenOthers

\* <&str>::from(keyword)
KeywordToStr ==
    \E w \in Keyword :
        /\ tokKind' = "KeywordInto"
        /\ tokIn' = w
        /\ tokOut' = Ok(KeywordInto(w))
        /\ TokenOthers

\* Keyword::try_from(&str)
KeywordParse ==
    \E s \in ProbeTexts :
        /\ tokKind' = "KeywordTryFrom"
        /\ tokIn' = s
        /\ tokOut' = KeywordTryFrom(s)
        /\ TokenOthers

TokenNext ==
    \/ PunctuationToChar \/ PunctuationParse
    \/ OperatorToStr \/ OperatorParse
    \/ KeywordToStr \/ KeywordParse

----------------------------------------------------------------------------
(* The scanner (loxi/src/lex): Lexer::new(source).scan() returns the lines,  *)
(* the tokens and the lexical errors.  One step scans one lexeme.            *)

Location(l, c) == [line |-> l, column |-> c]
Token(v, loc) == [value |-> v, loc |-> loc]

\* enum TokenValue
TokPunctuation(p) == [k |-> "Punctuation", v |-> p]
TokOperator(o) == [k |-> "Operator", v |-> o]
TokKeyword(w) == [k |-> "Keyword", v |-> w]
TokString(text) == [k |-> "Literal", lit |-> "String", text |-> text]
TokIdentifier(text) == [k |-> "Literal", lit |-> "Identifier", text |-> text]
TokNumber(x) == [k |-> "Literal", lit |-> "Number", num |-> x]
Eof == [k |-> "Eof"]

\* enum LexError
UnknownToken(loc, c) == [kind |-> "UnknownToken", loc |-> loc, char |-> c]
UnterminatedString(loc) == [kind |-> "UnterminatedString", loc |-> loc]

DigitChars == <<"0", "1", "2", "3", "4", "5", "6", "7", "8", "9">>
Digit == {"0", "1", "2", "3", "4", "5", "6", "7", "8", "9"}
Alpha ==
    {"a", "b", "c", "d", "e", "f", "g", "h", "i", "j", "k", "l", "m",
     "n", "o", "p", "q", "r", "s", "t", "u", "v", "w", "x", "y", "z",
     "A", "B", "C", "D", "E", "F", "G", "H", "I", "J", "K", "L", "M",
     "N", "O", "P", "Q", "R", "S", "T", "U", "V", "W", "X", "Y", "Z", "_"}
Whitespace == {" ", "\t", "\r"}
OperatorStart == {"!", "=", "<", ">", "+", "-", "*", "/"}

DigitValue(c) == CHOOSE d \in 0 .. 9 : DigitChars[d + 1] = c

RECURSIVE Join(_)
Join(cs) == IF cs = <<>> THEN "" ELSE Head(cs) \o Join(Tail(cs))

\* str::lines: the text between line breaks; a final line break ends the last
\* line; a line break is "\n" or "\r\n", so a "\r" right before the "\n" is no
\* part of the line (any other "\r" is, one ending the source included)
RECURSIVE Lines(_)
Lines(src) ==
    IF src = <<>> THEN <<>>
    ELSE LET breaks == {i \in 1 .. Len(src) : src[i] = "\n"}
         IN  IF breaks = {} THEN <<src>>
             ELSE LET b == CHOOSE i \in breaks : \A j \in breaks : i <= j
                      end == IF b > 1 /\ src[b - 1] = "\r" THEN b - 2 ELSE b - 1
                  IN  <<SubSeq(src, 1, end)>> \o Lines(SubSeq(src, b + 1, Len(src)))

\* the first index from i on whose character is not in S (Len(src) + 1 when none)
RECURSIVE RunEnd(_, _, _)
RunEnd(src, i, S) == IF i <= Len(src) /\ src[i] \in S THEN RunEnd(src, i + 1, S) ELSE i

\* the first index from i on whose character is in S (Len(src) + 1 when none)
RECURSIVE Find(_, _, _)
Find(src, i, S) == IF i <= Len(src) /\ src[i] \notin S THEN Find(src, i + 1, S) ELSE i

RECURSIVE Pow10(_)
Pow10(n) == IF n = 0 THEN 1 ELSE 10 * Pow10(n - 1)

RECURSIVE DigitsValue(_)
DigitsValue(cs) == IF cs = <<>> THEN 0 ELSE 10 * DigitsValue(SubSeq(cs, 1, Len(cs) - 1)) + DigitValue(cs[Len(cs)])

\* str::parse::<f64> of digits with an optional fractional part
ParseNumber(text) ==
    LET dot == Find(text, 1, {"."})
        whole == SubSeq(text, 1, dot - 1)
        frac == SubSeq(text, dot + 1, Len(text))
    IN  Norm(DigitsValue(whole) * Pow10(Len(frac)) + DigitsValue(frac), Pow10(Len(frac)))

\* static HELLO_WORLD of the scanner's test
HELLO_WORLD ==
    <<"v", "a", "r", " ", "h", "e", "l", "l", "o", " ", "=", " ", "\"",
      "H", "e", "l", "l", "o", " ", "w", "o", "r", "l", "d", "!", "\"", ";", "\n",
      "p", "r", "i", "n", "t", " ", "h", "e", "l", "l", "o", ";", "\n">>

\* the tokens hello_test expects of it
HelloTokens ==
    <<Token(TokKeyword("Var"), Location(1, 1)),
      Token(TokIdentifier(<<"h", "e", "l", "l", "o">>), Location(1, 5)),
      Token(TokOperator("Equal"), Location(1, 11)),
      Token(TokString(<<"H", "e", "l", "l", "o", " ", "w", "o", "r", "l", "d", "!">>), Location(1, 13)),
      Token(TokPunctuation("Semicolon"), Location(1, 27)),
      Token(TokKeyword("Print"), Location(2, 1)),
      Token(TokIdentifier(<<"h", "e", "l", "l", "o">>), Location(2, 7)),
      Token(TokPunctuation("Semicolon"), Location(2, 12)),
      Token(Eof, Location(3, 1))>>

SourceChars == {"o", "r", "1", "\"", "\n", " ", "/", "=", "!", ";", ".", "@"}

Sources == SeqsUpTo(SourceChars, MaxSrcLen) \cup {HELLO_WORLD}

Scanning == scanning = "scanning" /\ pos <= Len(source)
Here == Location(line, column)
Char == source[pos]
\* the lexeme source[pos .. end - 1] is consumed; it holds no line break
Consume(end) ==
    /\ pos' = end
    /\ column' = column + (end - pos)
    /\ UNCHANGED <<source, line, scanning>>
Others == UNCHANGED <<valueVars, tokenVars, interpVars, driverVars>>

\* Lexer::new(source)
New ==
    /\ scanning = "idle"
    /\ source' \in Sources
    /\ pos' = 1
    /\ line' = 1
    /\ column' = 1
    /\ tokens' = <<>>
    /\ errors' = <<>>
    /\ scanning' = "scanning"
    /\ Others

ScanWhitespace ==
    /\ Scanning
    /\ Char \in Whitespace
    /\ Consume(pos + 1)
    /\ UNCHANGED <<tokens, errors>>
    /\ Others

ScanNewline ==
    /\ Scanning
    /\ Char = "\n"
    /\ pos' = pos + 1
    /\ line' = line + 1
    /\ column' = 1
    /\ UNCHANGED <<source, scanning, tokens, errors>>
    /\ Others

IsComment == Char = "/" /\ pos < Len(source) /\ source[pos + 1] = "/"

\* `//` to the end of the line
ScanComment ==
    /\ Scanning
    /\ IsComment
    /\ Consume(Find(source, pos, {"\n"}))
    /\ UNCHANGED <<tokens, errors>>
    /\ Others

ScanPunctuation ==
    /\ Scanning
    /\ PunctuationTryFrom(Char).k = "Ok"
    /\ tokens' = Append(tokens, Token(TokPunctuation(PunctuationTryFrom(Char).v), Here))
    /\ Consume(pos + 1)
    /\ UNCHANGED errors
    /\ Others

\* the two-character operator when there is one, else the one-character one
ScanOperator ==
    /\ Scanning
    /\ Char \in OperatorStart
    /\ ~IsComment
    /\ LET two == IF pos < Len(source) THEN OperatorTryFrom(Char \o source[pos + 1]) ELSE InvalidToken
       IN  IF two.k = "Ok"
           THEN /\ tokens' = Append(tokens, Token(TokOperator(two.v), Here))
                /\ Consume(pos + 2)
           ELSE /\ tokens' = Append(tokens, Token(TokOperator(OperatorTryFrom(Char).v), Here))
                /\ Consume(pos + 1)
    /\ UNCHANGED errors
    /\ Others

\* a string ends at its closing quote; one that meets the end of the line or of
\* the source first is unterminated, and what was read of it is dropped
ScanString ==
    /\ Scanning
    /\ Char = "\""
    /\ LET end == Find(source, pos + 1, {"\"", "\n"})
       IN  IF end <= Len(source) /\ source[end] = "\""
           THEN /\ tokens' = Append(tokens, Token(TokString(SubSeq(source, pos + 1, end - 1)), Here))
                /\ Consume(end + 1)
                /\ UNCHANGED errors
           ELSE /\ errors' = Append(errors, UnterminatedString(Here))
                /\ Consume(end)
                /\ UNCHANGED tokens
    /\ Others

\* digits, then a `.` and digits when both are there
ScanNumber ==
    /\ Scanning
    /\ Char \in Digit
    /\ LET whole == RunEnd(source, pos, Digit)
           end == IF /\ whole < Len(source)
                     /\ source[whole] = "."
                     /\ source[whole + 1] \in Digit
                  THEN RunEnd(source, whole + 1, Digit)
                  ELSE whole
       IN  /\ tokens' = Append(tokens, Token(TokNumber(ParseNumber(SubSeq(source, pos, end - 1))), Here))
           /\ Consume(end)
    /\ UNCHANGED errors
    /\ Others

\* an identifier, or the keyword it spells
ScanIdentifier ==
    /\ Scanning
    /\ Char \in Alpha
    /\ LET end == RunEnd(source, pos, Alpha \cup Digit)
           text == SubSeq(source, pos, end - 1)
           word == KeywordTryFrom(Join(text))
       IN  /\ tokens' = Append(tokens, Token(IF word.k = "Ok" THEN TokKeyword(word.v)
                                                              ELSE TokIdentifier(text), Here))
           /\ Consume(end)
    /\ UNCHANGED errors
    /\ Others

\* any other character is recorded as an error and skipped
ScanUnknown ==
    /\ Scanning
    /\ Char \notin Whitespace \cup {"\n", "\""} \cup OperatorStart \cup Digit \cup Alpha
    /\ PunctuationTryFrom(Char).k = "Err"
    /\ errors' = Append(errors, UnknownToken(Here, Char))
    /\ Consume(pos + 1)
    /\ UNCHANGED tokens
    /\ Others

\* Eof placed where the scanner stopped reading
Finish_AtCursor ==
    /\ scanning = "scanning"
    /\ pos > Len(source)
    /\ tokens' = Append(tokens, Token(Eof, Here))
    /\ scanning' = "done"
    /\ UNCHANGED <<source, pos, line, column, errors>>
    /\ Others

\* the end of the source: Eof, one line past the last
Finish ==
    /\ scanning = "scanning"
    /\ pos > Len(source)
    /\ tokens' = Append(tokens, Token(Eof, Location(Len(Lines(source)) + 1, 1)))
    /\ scanning' = "done"
    /\ UNCHANGED <<source, pos, line, column, errors>>
    /\ Others

LexNext ==
    \/ New
    \/ ScanWhitespace
    \/ ScanNewline
    \/ ScanComment
    \/ ScanPunctuation
    \/ ScanOperator
    \/ ScanString
    \/ ScanNumber
    \/ ScanIdentifier
    \/ ScanUnknown
    \/ Finish

----------------------------------------------------------------------------
(* Expressions and their evaluation (loxi/src/parse/expr.rs), and the        *)
(* environment (loxi/src/interp/env.rs).  Locations are left out of          *)
(* expressions, statements and errors.                                       *)

Names == {"x", "y"}

Literal(v) == [k |-> "Literal", value |-> v]
Variable(n) == [k |-> "Variable", name |-> n]
Grouping(e) == [k |-> "Grouping", expr |-> e]
Unary(o, e) == [k |-> "Unary", op |-> o, right |-> e]
Binary(o, l, r) == [k |-> "Binary", op |-> o, left |-> l, right |-> r]

\* enum RuntimeError
InvalidBinaryOp(o, a, b) == [kind |-> "InvalidBinaryOp", op |-> o, left |-> a, right |-> b]
InvalidUnaryOp(o, a) == [kind |-> "InvalidUnaryOp", op |-> o, right |-> a]
UndefinedVariable(n) == [kind |-> "UndefinedVariable", name |-> n]

Unit == [t |-> "Unit"]

\* a scope maps every name to its value, or to Absent when it has no binding
Absent == [t |-> "Absent"]
EmptyScope == [n \in Names |-> Absent]

\* Env::new: the chain holding the root scope alone
new == <<EmptyScope>>
\* Env::child: a fresh scope whose parent is the chain so far
child(env) == Append(env, EmptyScope)
\* Env::define: insert or overwrite in the current (innermost) scope
define(env, n, v) == [env EXCEPT ![Len(env)] = [@ EXCEPT ![n] = v]]
\* Env::lookup: walk from the current scope to the root, the first match wins
lookup(env, n) ==
    LET having == {i \in 1 .. Len(env) : env[i][n] # Absent}
    IN  IF having = {}
        THEN Err(UndefinedVariable(n))
        ELSE Ok(env[CHOOSE i \in having : \A j \in having : j <= i][n])

ApplyUnary(o, v) ==
    CASE o = "!" -> not(v)
      [] o = "-" -> minus(v)

ApplyBinary(o, a, b, ar) ==
    CASE o = "+" -> add(a, b, ar)
      [] o = "-" -> sub(a, b)
      [] o = "*" -> mul(a, b)
      [] o = "/" -> div(a, b)
      [] o = "==" -> eq(a, b, ar)
      [] o = "!=" -> neq(a, b, ar)
      [] o = ">" -> gt(a, b)
      [] o = ">=" -> ge(a, b)
      [] o = "<" -> lt(a, b)
      [] o = "<=" -> le(a, b)

\* Expr::eval: the value of an expression, or the first RuntimeError met,
\* the left operand before the right
RECURSIVE eval(_, _, _)
eval(e, env, ar) ==
    CASE e.k = "Literal" -> Ok(e.value)
      [] e.k = "Variable" -> lookup(env, e.name)
      [] e.k = "Grouping" -> eval(e.expr, env, ar)
      [] e.k = "Unary" ->
            LET r == eval(e.right, env, ar)
            IN  IF r.k = "Err" THEN r
                ELSE LET v == ApplyUnary(e.op, r.v)
                     IN  IF v.k = "Some" THEN Ok(v.v)
                         ELSE Err(InvalidUnaryOp(e.op, name(r.v)))
      [] e.k = "Binary" ->
            LET l == eval(e.left, env, ar)
            IN  IF l.k = "Err" THEN l
                ELSE LET r == eval(e.right, env, ar)
                     IN  IF r.k = "Err" THEN r
                         ELSE LET v == ApplyBinary(e.op, l.v, r.v, ar)
                              IN  IF v.k = "Some" THEN Ok(v.v)
                                  ELSE Err(InvalidBinaryOp(e.op, name(l.v), name(r.v)))

----------------------------------------------------------------------------
(* impl Display for Value: the text println!("{}", v) writes, as characters. *)

RECURSIVE Digits(_)
Digits(n) == IF n < 10 THEN <<DigitChars[n + 1]>> ELSE Digits(n \div 10) \o <<DigitChars[(n % 10) + 1]>>

\* f64's Display: the sign, then the shortest decimal that reads back as the
\* number, which for a number with a short finite decimal expansion is that
\* expansion (no point and no fraction for an integer, -0.0 is "-0").  A
\* number without a finite expansion (1/3), whose text is that of the double
\* nearest to it, has no arm: no program of the model prints one.
FloatToText(x) ==
    LET den == Abs(x.den)
        finite == {k \in 0 .. 9 : den # 0 /\ Pow10(k) % den = 0}
        places == CHOOSE k \in finite : \A j \in finite : k <= j
        whole == Abs(x.num) \div den
        frac == Digits((Abs(x.num) % den) * (Pow10(places) \div den))
        zeros == [i \in 1 .. (places - Len(frac)) |-> "0"]
        sign == IF IsSignNegative(x) THEN <<"-">> ELSE <<>>
    IN  CASE IsNaN(x) -> <<"N", "a", "N">>
          [] IsInf(x) -> sign \o <<"i", "n", "f">>
          [] finite # {} ->
                sign \o Digits(whole)
                     \o (IF places = 0 THEN <<>> ELSE <<".">> \o zeros \o frac)

Display(v) ==
    CASE v.t = "Nil" -> <<"n", "i", "l">>
      [] v.t = "Bool" -> IF v.b THEN <<"t", "r", "u", "e">> ELSE <<"f", "a", "l", "s", "e">>
      [] v.t = "Number" -> FloatToText(v.n)
      [] v.t = "String" -> v.s
      [] v.t = "Object" -> <<"<", "o", "b", "j", "e", "c", "t", ">">>
      [] v.t \in {"Function", "NativeFunction"} ->
            <<"<", "f", "u", "n", " ", "s", "p", "u", "r", "|">> \o Digits(v.id) \o <<"|", ">">>
      [] v.t = "StringLiteral" ->
            <<"S", "t", "r", "i", "n", "g", "L", "i", "t", "e", "r", "a", "l",
              "(", "s", "p", "u", "r", "|">> \o Digits(v.spur) \o <<"|", ")">>

----------------------------------------------------------------------------
(* Statements (enum Stmt) and the programs given to the interpreter.         *)

ExprStmt(e) == [k |-> "Expr", expr |-> e]
PrintStmt(e) == [k |-> "Print", expr |-> e]
\* init is an Option<Expr>: <<>> or <<e>>
VarStmt(n, init) == [k |-> "Var", name |-> n, init |-> init]
BlockStmt(ss) == [k |-> "Block", statements |-> ss]
\* otherwise is an Option<Box<Stmt>>: <<>> or <<s>>
IfStmt(c, t, o) == [k |-> "If", condition |-> c, then |-> t, otherwise |-> o]

\* the texts the parser has interned for the string literals of the programs
LiteralTexts == << <<"a">> >>

One == Literal(Number(F(1, 1)))
Two == Literal(Number(F(2, 1)))

\* the statements without sub-statements that the programs are built from:
\*   var x = 1;   var x = 2;   var x;   var y = 1 + nil;   var y = "a";
\*   print x;     y + 1;       print "a";
Atoms ==
    {VarStmt("x", <<One>>),
     VarStmt("x", <<Two>>),
     VarStmt("x", <<>>),
     VarStmt("y", <<Binary("+", One, Literal(Nil))>>),
     VarStmt("y", <<Literal(StringLiteral(1))>>),
     PrintStmt(Variable("x")),
     ExprStmt(Binary("+", Variable("y"), One)),
     PrintStmt(Literal(StringLiteral(1)))}

\* the conditions of the if statements:   x
Conditions == {Variable("x")}

\* The statements of exactly n nodes, and the statement lists of exactly n
\* nodes in all (a statement counts one node plus those of its sub-statements).
RECURSIVE StmtsOfSize(_), ListsOfSize(_)
StmtsOfSize(n) ==
    IF n < 1 THEN {}
    ELSE IF n = 1 THEN Atoms \cup {BlockStmt(<<>>)}
    ELSE {BlockStmt(l) : l \in ListsOfSize(n - 1)}
         \cup {IfStmt(c, t, <<>>) : c \in Conditions, t \in StmtsOfSize(n - 1)}
         \cup UNION {{IfStmt(c, t, <<o>>) : c \in Conditions,
                                            t \in StmtsOfSize(i),
                                            o \in StmtsOfSize(n - 1 - i)} : i \in 1 .. (n - 2)}

ListsOfSize(n) ==
    IF n < 0 THEN {}
    ELSE IF n = 0 THEN {<<>>}
    ELSE UNION {{<<s>> \o l : s \in StmtsOfSize(i), l \in ListsOfSize(n - i)} : i \in 1 .. n}

\* the number of statements of a statement list
RECURSIVE Size(_)
Size(l) ==
    IF l = <<>> THEN 0
    ELSE LET s == Head(l)
         IN  1 + Size(Tail(l))
               + (CASE s.k = "Block" -> Size(s.statements)
                    [] s.k = "If" -> Size(<<s.then>>) + Size(s.otherwise)
                    [] OTHER -> 0)

\* { var x = 1; { var x = 2; } print x; }
ShadowProgram ==
    <<BlockStmt(<<VarStmt("x", <<One>>),
                  BlockStmt(<<VarStmt("x", <<Two>>)>>),
                  PrintStmt(Variable("x"))>>)>>

\* var x; if (x) print x; else var x = 2; print x;
ElseProgram ==
    <<VarStmt("x", <<>>),
      IfStmt(Variable("x"), PrintStmt(Variable("x")), <<VarStmt("x", <<Two>>)>>),
      PrintStmt(Variable("x"))>>

\* the programs an interpreter that was given `used` statements may be given next
Programs(used) ==
    UNION {ListsOfSize(n) : n \in 0 .. (MaxNodes - used)}
        \cup (IF used = 0 THEN {ShadowProgram, ElseProgram} ELSE {})

----------------------------------------------------------------------------
(* Interpreter::interpret and Stmt::execute.  The recursion of execute is    *)
(* the stack: one frame for the program and one above it for each Block      *)
(* being executed, each holding the statements still to execute; scopes      *)
(* holds the root scope and above it the child scope of each of those        *)
(* Blocks.                                                                   *)

Frame(ss, env) == [stmts |-> ss, entry |-> env]

Top == stack[Len(stack)]
Current == Head(Top.stmts)
Executing(kind) ==
    /\ status = "running"
    /\ stack # <<>>
    /\ Top.stmts # <<>>
    /\ Current.k = kind

\* the statement list goes on with what follows the current statement
Advance == [stack EXCEPT ![Len(stack)].stmts = Tail(@)]
\* the statement list goes on with `s`, then what follows the current statement
Enter(s) == [stack EXCEPT ![Len(stack)].stmts = <<s>> \o Tail(@)]

\* `?`: the error leaves the statement list
Raise(e) ==
    /\ status' = "failing"
    /\ outcome' = Err(e)

Begin == executed' = Append(executed, Current)

\* let env = &mut self.environment; for stmt in program.statements { ... }
Interpret ==
    /\ status \in {"idle", "ok", "error"}
    /\ \E p \in Programs(given) :
        /\ program' = p
        /\ given' = given + Size(p)
        /\ stack' = <<Frame(p, scopes)>>
    /\ arena' = LiteralTexts
    /\ status' = "running"
    /\ outcome' = Ok(Unit)
    /\ executed' = <<>>
    /\ UNCHANGED <<scopes, output>>
    /\ UNCHANGED <<op, lhs, rhs, result, tokenVars, lexVars, driverVars>>

\* Stmt::Expr { expr } => expr.eval_unit(env)?
ExecuteExpr ==
    /\ Executing("Expr")
    /\ Begin
    /\ LET r == eval(Current.expr, scopes, arena)
       IN  IF r.k = "Ok"
           THEN stack' = Advance /\ UNCHANGED <<status, outcome>>
           ELSE Raise(r.e) /\ UNCHANGED stack
    /\ UNCHANGED <<program, scopes, output, given>>
    /\ UNCHANGED <<valueVars, tokenVars, lexVars, driverVars>>

\* Stmt::Print { expr, .. } => expr.eval_fn(env, |v| println!("{}", v))?
ExecutePrint ==
    /\ Executing("Print")
    /\ Begin
    /\ LET r == eval(Current.expr, scopes, arena)
       IN  IF r.k = "Ok"
           THEN /\ output' = Append(output, Display(r.v))
                /\ stack' = Advance
                /\ UNCHANGED <<status, outcome>>
           ELSE Raise(r.e) /\ UNCHANGED <<stack, output>>
    /\ UNCHANGED <<program, scopes, given>>
    /\ UNCHANGED <<valueVars, tokenVars, lexVars, driverVars>>

\* the Var arm binding the name to nil when its initializer fails
ExecuteVar_NilOnError ==
    /\ Executing("Var")
    /\ Begin
    /\ LET r == IF Current.init = <<>> THEN Ok(Nil) ELSE eval(Current.init[1], scopes, arena)
       IN  IF r.k = "Ok"
           THEN /\ scopes' = define(scopes, Current.name, r.v)
                /\ stack' = Advance
                /\ UNCHANGED <<status, outcome>>
           ELSE /\ Raise(r.e)
                /\ scopes' = define(scopes, Current.name, Nil)
                /\ UNCHANGED stack
    /\ UNCHANGED <<program, output, given>>
    /\ UNCHANGED <<valueVars, tokenVars, lexVars, driverVars>>

\* Stmt::Var { name, init, .. } => { let value = ...; env.define(name, value); }
ExecuteVar ==
    /\ Executing("Var")
    /\ Begin
    /\ LET r == IF Current.init = <<>> THEN Ok(Nil) ELSE eval(Current.init[1], scopes, arena)
       IN  IF r.k = "Ok"
           THEN /\ scopes' = define(scopes, Current.name, r.v)
                /\ stack' = Advance
                /\ UNCHANGED <<status, outcome>>
           ELSE Raise(r.e) /\ UNCHANGED <<stack, scopes>>
    /\ UNCHANGED <<program, output, given>>
    /\ UNCHANGED <<valueVars, tokenVars, lexVars, driverVars>>

\* the Block arm without env.child(): the statements run in the enclosing scope
ExecuteBlock_NoChild ==
    /\ Executing("Block")
    /\ Begin
    /\ stack' = [stack EXCEPT ![Len(stack)].stmts = Current.statements \o Tail(@)]
    /\ UNCHANGED <<program, scopes, output, status, outcome, given>>
    /\ UNCHANGED <<valueVars, tokenVars, lexVars, driverVars>>

\* Stmt::Block { statements } => { let mut new_env = env.child(); for stmt in statements ...
ExecuteBlock ==
    /\ Executing("Block")
    /\ Begin
    /\ scopes' = child(scopes)
    /\ stack' = Append(Advance, Frame(Current.statements, scopes))
    /\ UNCHANGED <<program, output, status, outcome, given>>
    /\ UNCHANGED <<valueVars, tokenVars, lexVars, driverVars>>

\* the Block arm dropping the error of a failed statement instead of returning it
BlockReturn_ErrorDropped ==
    /\ Len(stack) > 1
    /\ \/ status = "failing"
       \/ status = "running" /\ Top.stmts = <<>>
    /\ stack' = SubSeq(stack, 1, Len(stack) - 1)
    /\ scopes' = SubSeq(scopes, 1, Len(scopes) - 1)
    /\ status' = "running"
    /\ outcome' = Ok(Unit)
    /\ UNCHANGED <<program, output, executed, given>>
    /\ UNCHANGED <<valueVars, tokenVars, lexVars, driverVars>>

\* the Block arm ends, its statements done or one of them failed: new_env is dropped
BlockReturn ==
    /\ Len(stack) > 1
    /\ \/ status = "failing"
       \/ status = "running" /\ Top.stmts = <<>>
    /\ stack' = SubSeq(stack, 1, Len(stack) - 1)
    /\ scopes' = SubSeq(scopes, 1, Len(scopes) - 1)
    /\ UNCHANGED <<program, output, status, outcome, executed, given>>
    /\ UNCHANGED <<valueVars, tokenVars, lexVars, driverVars>>

\* the If arm executing `then` whatever the condition's value
ExecuteIf_ThenAlways ==
    /\ Executing("If")
    /\ Begin
    /\ LET r == eval(Current.condition, scopes, arena)
       IN  IF r.k = "Err"
           THEN Raise(r.e) /\ UNCHANGED stack
           ELSE /\ stack' = Enter(Current.then)
                /\ UNCHANGED <<status, outcome>>
    /\ UNCHANGED <<program, scopes, output, given>>
    /\ UNCHANGED <<valueVars, tokenVars, lexVars, driverVars>>

\* Stmt::If { condition, then, otherwise, .. } => match condition.eval_fn(env, |v| v.truthiness())? ...
ExecuteIf ==
    /\ Executing("If")
    /\ Begin
    /\ LET r == eval(Current.condition, scopes, arena)
       IN  IF r.k = "Err"
           THEN Raise(r.e) /\ UNCHANGED stack
           ELSE /\ stack' = IF truthiness(r.v) THEN Enter(Current.then)
                            ELSE IF Current.otherwise # <<>> THEN Enter(Current.otherwise[1])
                            ELSE Advance
                /\ UNCHANGED <<status, outcome>>
    /\ UNCHANGED <<program, scopes, output, given>>
    /\ UNCHANGED <<valueVars, tokenVars, lexVars, driverVars>>

\* interpret returns: Ok(()) after the last statement, or the error of the one that failed
InterpretReturn ==
    /\ Len(stack) = 1
    /\ \/ status = "failing" /\ status' = "error"
       \/ status = "running" /\ Top.stmts = <<>> /\ status' = "ok"
    /\ stack' = <<>>
    /\ UNCHANGED <<program, scopes, output, outcome, executed, given>>
    /\ UNCHANGED <<valueVars, tokenVars, lexVars, driverVars>>

InterpNext ==
    \/ Interpret
    \/ ExecuteExpr
    \/ ExecutePrint
    \/ ExecuteVar
    \/ ExecuteBlock
    \/ BlockReturn
    \/ ExecuteIf
    \/ InterpretReturn

----------------------------------------------------------------------------
(* The parser of the driver (loxi/src/parse): Parser::new(&tokens).parse()   *)
(* returns the expression the tokens spell, which must reach the Eof, or a   *)
(* ParseError.  Precedence, loosest first: equality, comparison, additive,   *)
(* multiplicative, unary, primary; the binary operators associate to the     *)
(* left.  A string literal is interned in the arena.  The expressions of the *)
(* driver hold no variables: run evaluates them without an environment, and  *)
(* the runtime errors it reports are InvalidBinaryOp and InvalidUnaryOp      *)
(* alone; an identifier is no primary here.                                  *)

\* enum ParseError
SyntaxError(loc) == [kind |-> "SyntaxError", loc |-> loc]
EndOfFile == [kind |-> "EndOfFile"]

\* what a parsing function returns: the expression, the index of the next
\* token and the arena, or the error and the arena
Parsed(e, i, ar) == [k |-> "Ok", v |-> e, next |-> i, ar |-> ar]
Failed(e, ar) == [k |-> "Err", e |-> e, ar |-> ar]

\* the operators of the binary levels, loosest first
BinaryOps ==
    <<{"BangEqual", "EqualEqual"},
      {"Greater", "GreaterEqual", "Less", "LessEqual"},
      {"Plus", "Minus"},
      {"Star", "Slash"}>>

IsOperator(tok, ops) == tok.value.k = "Operator" /\ tok.value.v \in ops

RECURSIVE binary(_, _, _, _), rest(_, _, _, _, _), unary(_, _, _), primary(_, _, _)

\* a literal or a parenthesized expression
primary(toks, i, ar) ==
    IF i > Len(toks) THEN Failed(EndOfFile, ar)
    ELSE LET val == toks[i].value
         IN  CASE val.k = "Literal" /\ val.lit = "Number" ->
                     Parsed(Literal(Number(val.num)), i + 1, ar)
               [] val.k = "Literal" /\ val.lit = "String" ->
                     LET interned == get_or_intern(ar, val.text)
                     IN  Parsed(Literal(StringLiteral(SpurOf(interned, val.text))), i + 1, interned)
               [] val.k = "Keyword" /\ val.v = "True" -> Parsed(Literal(Bool(TRUE)), i + 1, ar)
               [] val.k = "Keyword" /\ val.v = "False" -> Parsed(Literal(Bool(FALSE)), i + 1, ar)
               [] val.k = "Keyword" /\ val.v = "Nil" -> Parsed(Literal(Nil), i + 1, ar)
               [] val.k = "Punctuation" /\ val.v = "ParenLeft" ->
                     LET inner == binary(1, toks, i + 1, ar)
                     IN  IF inner.k = "Err" THEN inner
                         ELSE IF toks[inner.next].value = TokPunctuation("ParenRight")
                              THEN Parsed(Grouping(inner.v), inner.next + 1, inner.ar)
                              ELSE Failed(SyntaxError(toks[inner.next].loc), inner.ar)
               [] OTHER -> Failed(SyntaxError(toks[i].loc), ar)

\* `!` or `-` and its operand, or a primary
unary(toks, i, ar) ==
    IF i <= Len(toks) /\ IsOperator(toks[i], {"Bang", "Minus"})
    THEN LET r == unary(toks, i + 1, ar)
         IN  IF r.k = "Err" THEN r
             ELSE Parsed(Unary(OperatorInto(toks[i].value.v), r.v), r.next, r.ar)
    ELSE primary(toks, i, ar)

\* the operators of a level and their right operands, folded to the left
rest(level, left, toks, i, ar) ==
    IF i <= Len(toks) /\ IsOperator(toks[i], BinaryOps[level])
    THEN LET r == binary(level + 1, toks, i + 1, ar)
         IN  IF r.k = "Err" THEN r
             ELSE rest(level, Binary(OperatorInto(toks[i].value.v), left, r.v), toks, r.next, r.ar)
    ELSE Parsed(left, i, ar)

\* an expression of a binary level: an operand of the next level, then the rest
binary(level, toks, i, ar) ==
    IF level > Len(BinaryOps) THEN unary(toks, i, ar)
    ELSE LET l == binary(level + 1, toks, i, ar)
         IN  IF l.k = "Err" THEN l ELSE rest(level, l.v, toks, l.next, l.ar)

\* Parser::parse
parse(toks, ar) ==
    LET r == binary(1, toks, 1, ar)
    IN  IF r.k = "Err" THEN r
        ELSE IF toks[r.next].value = Eof THEN r
        ELSE Failed(SyntaxError(toks[r.next].loc), r.ar)

----------------------------------------------------------------------------
(* The driver: run(program) of loxi/src/lib.rs.  The scan it starts is the   *)
(* scanner above, taking its steps; `reported` records each print of run by  *)
(* what is printed (an error is printed below its source context), not by    *)
(* the characters written.                                                   *)

\* Expr::eval() of the driver: the value of an expression without variables, or
\* the first RuntimeError met, the left operand before the right; a string
\* literal is resolved in the process-wide arena
RECURSIVE eval_expr(_)
eval_expr(e) ==
    CASE e.k = "Literal" -> Ok(e.value)
      [] e.k = "Grouping" -> eval_expr(e.expr)
      [] e.k = "Unary" ->
            LET r == eval_expr(e.right)
            IN  IF r.k = "Err" THEN r
                ELSE LET v == ApplyUnary(e.op, r.v)
                     IN  IF v.k = "Some" THEN Ok(v.v)
                         ELSE Err(InvalidUnaryOp(e.op, name(r.v)))
      [] e.k = "Binary" ->
            LET l == eval_expr(e.left)
            IN  IF l.k = "Err" THEN l
                ELSE LET r == eval_expr(e.right)
                     IN  IF r.k = "Err" THEN r
                         ELSE LET v == ApplyBinary(e.op, l.v, r.v, arena)
                              IN  IF v.k = "Some" THEN Ok(v.v)
                                  ELSE Err(InvalidBinaryOp(e.op, name(l.v), name(r.v)))

\* one print of run: a lexical error, the count of lexical errors, a parse
\* error, "Expr: {val}", "Eval: {val}" or a runtime error
Printed(kind, what) == [print |-> kind, what |-> what]

\* let ScanResult { lines, tokens, errors } = Lexer::new(program).scan();
Run ==
    /\ stage = "idle"
    /\ scanning = "idle"
    /\ source' \in Sources
    /\ pos' = 1
    /\ line' = 1
    /\ column' = 1
    /\ tokens' = <<>>
    /\ errors' = <<>>
    /\ scanning' = "scanning"
    /\ stage' = "scan"
    /\ calls' = Append(calls, "scan")
    /\ UNCHANGED <<parsed, reported>>
    /\ UNCHANGED <<valueVars, tokenVars, interpVars>>

\* if !errors.is_empty() { errors.iter().for_each(...); println_red!(...); return Ok(()); }
ReportLexErrors ==
    /\ stage = "scan"
    /\ scanning = "done"
    /\ errors # <<>>
    /\ reported' = reported \o [i \in 1 .. Len(errors) |-> Printed("LexError", errors[i])]
                            \o <<Printed("LexErrorCount", Len(errors))>>
    /\ stage' = "returned"
    /\ UNCHANGED <<calls, parsed>>
    /\ UNCHANGED <<valueVars, tokenVars, lexVars, interpVars>>

\* run parsing whatever the scan returned, its errors unchecked
Parse_Unchecked ==
    /\ stage = "scan"
    /\ scanning = "done"
    /\ LET r == parse(tokens, arena)
       IN  /\ parsed' = IF r.k = "Ok" THEN Ok(r.v) ELSE Err(r.e)
           /\ arena' = r.ar
    /\ calls' = Append(calls, "parse")
    /\ stage' = "parse"
    /\ UNCHANGED reported
    /\ UNCHANGED <<op, lhs, rhs, result, tokenVars, lexVars, interpVars>>

\* let parser = Parser::new(&tokens); let expr = parser.parse();
Parse ==
    /\ stage = "scan"
    /\ scanning = "done"
    /\ errors = <<>>
    /\ LET r == parse(tokens, arena)
       IN  /\ parsed' = IF r.k = "Ok" THEN Ok(r.v) ELSE Err(r.e)
           /\ arena' = r.ar
    /\ calls' = Append(calls, "parse")
    /\ stage' = "parse"
    /\ UNCHANGED reported
    /\ UNCHANGED <<op, lhs, rhs, result, tokenVars, lexVars, interpVars>>

\* match expr { Err(err) => { ...; return Ok(()); } ... }
ReportParseError ==
    /\ stage = "parse"
    /\ parsed.k = "Err"
    /\ reported' = Append(reported, Printed("ParseError", parsed.e))
    /\ stage' = "returned"
    /\ UNCHANGED <<calls, parsed>>
    /\ UNCHANGED <<valueVars, tokenVars, lexVars, interpVars>>

\* Ok(ref val) => println!("Expr: {val}"), then
\* let result = expr.unwrap().eval(); match result { Ok(val) => ..., Err(err) => ... }
Evaluate ==
    /\ stage = "parse"
    /\ parsed.k = "Ok"
    /\ calls' = Append(calls, "eval")
    /\ LET r == eval_expr(parsed.v)
       IN  reported' = reported \o <<Printed("Expr", parsed.v),
                                     IF r.k = "Ok" THEN Printed("Eval", r.v)
                                                   ELSE Printed("RuntimeError", r.e)>>
    /\ stage' = "returned"
    /\ UNCHANGED parsed
    /\ UNCHANGED <<valueVars, tokenVars, lexVars, interpVars>>

DriverNext ==
    \/ Run
    \/ ScanWhitespace
    \/ ScanNewline
    \/ ScanComment
    \/ ScanPunctuation
    \/ ScanOperator
    \/ ScanString
    \/ ScanNumber
    \/ ScanIdentifier
    \/ ScanUnknown
    \/ Finish
    \/ ReportLexErrors
    \/ Parse
    \/ ReportParseError
    \/ Evaluate

----------------------------------------------------------------------------
(* The state after construction: nothing interned, nothing scanned, nothing  *)
(* run.  Each machine is specified alone, the others at rest.                *)

Init ==
    /\ arena = <<>>
    /\ op = "none"
    /\ lhs = Nil
    /\ rhs = Nil
    /\ result = None
    /\ tokKind = "none"
    /\ tokIn = ""
    /\ tokOut = Ok("")
    /\ source = <<>>
    /\ pos = 1
    /\ line = 1
    /\ column = 1
    /\ tokens = <<>>
    /\ errors = <<>>
    /\ scanning = "idle"
    /\ program = <<>>
    /\ scopes = new
    /\ stack = <<>>
    /\ output = <<>>
    /\ status = "idle"
    /\ outcome = Ok(Unit)
    /\ executed = <<>>
    /\ given = 0
    /\ stage = "idle"
    /\ calls = <<>>
    /\ parsed = Ok(Unit)
    /\ reported = <<>>

SpecValue == Init /\ [][ValueNext]_vars

SpecToken == Init /\ [][TokenNext]_vars

SpecInterp == Init /\ [][InterpNext]_vars

SpecLex == Init /\ [][LexNext]_vars

\* scan runs to completion: it is never suspended while a step is left to take
SpecLexLive == SpecLex /\ WF_vars(LexNext)

SpecDriver == Init /\ [][DriverNext]_vars

----------------------------------------------------------------------------
(* The value model's properties, under SpecValue.                            *)

BothStrings == IsString(lhs) /\ IsString(rhs)
BothNumbers == lhs.t = "Number" /\ rhs.t = "Number"

\* C1 (as claimed): `+` of two string-typed values, in each of the four
\* representation combinations, returns String(text(a) ++ text(b)).
C1_AddConcatenatesAllStrings ==
    (op = "+" /\ BothStrings)
        => result = Some(String(TextOf(arena, lhs) \o TextOf(arena, rhs)))

\* C2: `==` of two string-typed values is Bool(text(a) = text(b)) whatever the
\* representations, and swapping the operands gives the same answer.
C2_StringEqByText ==
    (op = "==" /\ BothStrings)
        => /\ result = Some(Bool(TextOf(arena, lhs) = TextOf(arena, rhs)))
           /\ eq(rhs, lhs, arena) = result

C2_Witness ==
    /\ op = "=="
    /\ lhs.t = "StringLiteral" /\ rhs.t = "String"
    /\ result = Some(Bool(TRUE))
    /\ \E i \in 1 .. Len(arena) : i # lhs.spur

\* what `==` answers where it answers: by value within a type, false across types
EqByValue(a, b, ar) ==
    \/ a.t = "Nil" /\ b.t = "Nil"
    \/ a.t = "Bool" /\ b.t = "Bool" /\ a.b = b.b
    \/ a.t = "Number" /\ b.t = "Number" /\ FEq(a.n, b.n)
    \/ IsString(a) /\ IsString(b) /\ TextOf(ar, a) = TextOf(ar, b)

\* C3 (as claimed): `==` returns a Bool for every pair of operands, Object/Object
\* included, and never aborts.
C3_EqTotal ==
    op = "==" => result = Some(Bool(EqByValue(lhs, rhs, arena)))

\* C3 (amended): `==` returns Bool(by-value equality) for every pair of operands
\* other than Object/Object, where it aborts (unimplemented!()).
C3_EqTotalButObjects ==
    op = "=="
        => IF lhs.t = "Object" /\ rhs.t = "Object"
           THEN result = Panic
           ELSE result = Some(Bool(EqByValue(lhs, rhs, arena)))

C3_Witness ==
    /\ op = "=="
    /\ lhs.t = "Nil" /\ rhs.t = "Nil"
    /\ result = Some(Bool(TRUE))

\* C4: wherever `==` is defined, `!=` is defined and is its negation.
C4_NeqNegatesEq ==
    op = "!="
        => LET e == eq(lhs, rhs, arena)
           IN  e.k = "Some" => /\ result.k = "Some"
                               /\ result.v.t = "Bool"
                               /\ result.v.b = ~e.v.b

C4_Witness ==
    /\ op = "!="
    /\ lhs.t = "String" /\ rhs.t = "StringLiteral"
    /\ eq(lhs, rhs, arena) = Some(Bool(TRUE))
    /\ result = Some(Bool(FALSE))

\* C5: truthiness is false exactly for Nil and Bool(false); `!` is defined for
\* every value and returns the negated truthiness.
C5_Truthiness ==
    LET falsy == lhs.t = "Nil" \/ (lhs.t = "Bool" /\ ~lhs.b)
    IN  /\ op = "truthiness" => result = Some(Bool(~falsy))
        /\ op = "!" => result = Some(Bool(falsy))

C5_Witness ==
    /\ op = "truthiness"
    /\ lhs.t = "Number" /\ lhs.n = F(0, 1)
    /\ result = Some(Bool(TRUE))

\* C6: `-` `*` `/` return a Number and `>` `>=` `<` `<=` a Bool exactly when both
\* operands are Number (a zero divisor included) and None otherwise; `+` of a
\* Number and a string is None.
C6_NumbersOnly ==
    /\ op \in {"-", "*", "/"}
        => IF BothNumbers
           THEN result.k = "Some" /\ result.v.t = "Number"
           ELSE result = None
    /\ op \in {">", ">=", "<", "<="}
        => IF BothNumbers
           THEN result.k = "Some" /\ result.v.t = "Bool"
           ELSE result = None
    /\ (op = "+" /\ ((lhs.t = "Number" /\ IsString(rhs)) \/ (IsString(lhs) /\ rhs.t = "Number")))
        => result = None

C6_Witness ==
    /\ op = "/"
    /\ lhs.t = "Number" /\ rhs.t = "Number"
    /\ rhs.n = F(0, 1)
    /\ result = Some(Number(Inf))

----------------------------------------------------------------------------
(* The token spellings' properties, under SpecToken.                         *)

\* C9: for Punctuation, Operator and Keyword, parsing the spelling of a variant
\* gives back that variant, no two variants share a spelling, and a text that
\* is no variant's spelling is rejected with InvalidToken.
C9_SpellingsRoundTrip ==
    /\ tokKind = "PunctuationInto" => PunctuationTryFrom(tokOut.v) = Ok(tokIn)
    /\ tokKind = "OperatorInto" => OperatorTryFrom(tokOut.v) = Ok(tokIn)
    /\ tokKind = "KeywordInto" => KeywordTryFrom(tokOut.v) = Ok(tokIn)
    /\ tokKind = "PunctuationInto"
        => \A q \in Punctuation : PunctuationInto(q) = tokOut.v => q = tokIn
    /\ tokKind = "OperatorInto"
        => \A q \in Operator : OperatorInto(q) = tokOut.v => q = tokIn
    /\ tokKind = "KeywordInto"
        => \A q \in Keyword : KeywordInto(q) = tokOut.v => q = tokIn
    /\ tokKind = "PunctuationTryFrom"
        => IF \E q \in Punctuation : PunctuationInto(q) = tokIn
           THEN tokOut.k = "Ok" /\ PunctuationInto(tokOut.v) = tokIn
           ELSE tokOut = InvalidToken
    /\ tokKind = "OperatorTryFrom"
        => IF \E q \in Operator : OperatorInto(q) = tokIn
           THEN tokOut.k = "Ok" /\ OperatorInto(tokOut.v) = tokIn
           ELSE tokOut = InvalidToken
    /\ tokKind = "KeywordTryFrom"
        => IF \E q \in Keyword : KeywordInto(q) = tokIn
           THEN tokOut.k = "Ok" /\ KeywordInto(tokOut.v) = tokIn
           ELSE tokOut = InvalidToken

C9_Witness ==
    /\ tokKind = "OperatorTryFrom"
    /\ tokIn = ">="
    /\ tokOut = Ok("GreaterEqual")

----------------------------------------------------------------------------
(* Statement execution's properties, under SpecInterp.                       *)

\* C7: when a Block returns, its statements done or one of them failed, the
\* enclosing scopes hold exactly the bindings they held at block entry; and
\* { var x = 1; { var x = 2; } print x; } prints 1.
C7_BlockLeavesEnclosingScopes ==
    /\ [][(Len(stack) > 1 /\ Len(stack') < Len(stack)) => scopes' = Top.entry]_vars
    /\ []((program = ShadowProgram /\ status = "ok") => output = << <<"1">> >>)

C7_Witness ==
    /\ program = ShadowProgram
    /\ status = "ok"
    /\ output = << <<"1">> >>
    /\ scopes = new

\* C8: once a statement has failed, no further statement of the call is
\* executed, the error reaches the caller of interpret unchanged, and what was
\* printed and defined in the root scope before stays: the root scope is kept
\* as it is for the next interpret call.
C8_ErrorShortCircuits ==
    [][/\ status = "failing"
          => /\ status' \in {"failing", "error"}
             /\ executed' = executed
             /\ outcome' = outcome
             /\ outcome.k = "Err"
             /\ output' = output
             /\ scopes'[1] = scopes[1]
       /\ status = "error"
          => /\ outcome.k = "Err"
             /\ status' = "running"
             /\ scopes' = scopes
             /\ Len(scopes) = 1
             /\ output' = output]_vars

C8_Witness ==
    /\ status = "error"
    /\ outcome = Err(InvalidBinaryOp("+", "<number>", "<nil>"))
    /\ Len(executed) = 2
    /\ Len(program) = 3
    /\ scopes[1]["x"] = Number(F(1, 1))

----------------------------------------------------------------------------
(* The scanner's properties, under SpecLexLive.                              *)

\* C10: every scan ends, and the tokens it returns end with an Eof at line
\* lines.len() + 1, column 1, which is their only Eof, with or without a final
\* line break and with or without lexical errors; the hello-world source gives
\* the 9 tokens of hello_test, the Eof at [3,1].
C10_EofEndsTokens ==
    /\ [](scanning = "done"
            => /\ tokens # <<>>
               /\ tokens[Len(tokens)] = Token(Eof, Location(Len(Lines(source)) + 1, 1))
               /\ \A i \in 1 .. (Len(tokens) - 1) : tokens[i].value # Eof)
    /\ []((scanning = "done" /\ source = HELLO_WORLD)
            => /\ errors = <<>>
               /\ Len(Lines(source)) = 2
               /\ Len(tokens) = 9
               /\ tokens = HelloTokens)
    /\ (scanning = "scanning") ~> (scanning = "done")

C10_Witness ==
    /\ scanning = "done"
    /\ source # <<>>
    /\ source[Len(source)] # "\n"
    /\ errors # <<>>
    /\ Len(tokens) > 1
    /\ tokens[Len(tokens)].loc = Location(line + 1, 1)

----------------------------------------------------------------------------
(* The Print statement's property, under SpecInterp.                         *)

\* C11: a Print statement whose expression evaluates to a value appends one
\* line to the output, and for a string-typed value that line is the value's
\* text, whether the value is a String or a StringLiteral interned from that
\* text; for any other value it is the Display rendering.
C11_PrintWritesText ==
    [][(Executing("Print") /\ eval(Current.expr, scopes, arena).k = "Ok")
          => LET v == eval(Current.expr, scopes, arena).v
             IN  output' = Append(output, IF IsString(v) THEN TextOf(arena, v)
                                                         ELSE Display(v))]_vars

----------------------------------------------------------------------------
(* The driver's property, under SpecDriver.                                  *)

Stages == <<"scan", "parse", "eval">>
\* what Parser::parse returns for the tokens of the scan
ParseResult == parse(tokens, <<>>)

\* C12: run invokes its stages in the order scan, parse, evaluate, each at
\* most once; the parser is invoked only on a finished scan without lexical
\* errors and the evaluator only on a parse that returned an expression; a
\* run whose scan returned lexical errors has reported every one of them, in
\* order, and invoked neither the parser nor the evaluator, and a run whose
\* parse returned an error has reported it and not invoked the evaluator.
C12_StagesInOrder ==
    /\ \E n \in 0 .. Len(Stages) : calls = SubSeq(Stages, 1, n)
    /\ Len(calls) >= 2
          => /\ scanning = "done"
             /\ errors = <<>>
             /\ parsed = IF ParseResult.k = "Ok" THEN Ok(ParseResult.v) ELSE Err(ParseResult.e)
    /\ Len(calls) >= 3 => parsed.k = "Ok"
    /\ (stage = "returned" /\ errors # <<>>)
          => /\ calls = <<"scan">>
             /\ reported = [i \in 1 .. Len(errors) |-> Printed("LexError", errors[i])]
                               \o <<Printed("LexErrorCount", Len(errors))>>
    /\ (stage = "returned" /\ errors = <<>> /\ parsed.k = "Err")
          => /\ calls = <<"scan", "parse">>
             /\ reported = <<Printed("ParseError", parsed.e)>>
    /\ (stage = "returned" /\ errors = <<>> /\ parsed.k = "Ok")
          => /\ calls = Stages
             /\ Len(reported) = 2
             /\ reported[1] = Printed("Expr", parsed.v)

\* a source with two lexical errors whose tokens the parser would accept
C12_Witness ==
    /\ stage = "returned"
    /\ Len(errors) = 2
    /\ ParseResult.k = "Ok"
    /\ calls = <<"scan">>
    /\ Len(reported) = 3

----------------------------------------------------------------------------
(* The Var and If statements' properties, under SpecInterp.                  *)

\* C13: executing Var{name, init} changes the innermost scope only, and of it
\* the binding of name only, which becomes Nil when init is absent and else
\* the value of init, whether or not the scope had a binding of name; when
\* init fails, every scope is left as it was and the error is raised.
C13_VarBindsInnermost ==
    [][(Executing("Var") /\ executed' # executed)
          => LET r == IF Current.init = <<>> THEN Ok(Nil)
                      ELSE eval(Current.init[1], scopes, arena)
                 top == Len(scopes)
             IN  IF r.k = "Err"
                 THEN scopes' = scopes /\ status' = "failing" /\ outcome' = r
                 ELSE /\ Len(scopes') = top
                      /\ \A i \in 1 .. (top - 1) : scopes'[i] = scopes[i]
                      /\ \A n \in Names \ {Current.name} : scopes'[top][n] = scopes[top][n]
                      /\ scopes'[top][Current.name] = r.v
                      /\ status' = "running"]_vars

\* var x = 1; { var x = 2; }   with the block's var just executed
C13_Witness ==
    /\ status = "running"
    /\ Len(scopes) = 2
    /\ scopes[1]["x"] = Number(F(1, 1))
    /\ scopes[2]["x"] = Number(F(2, 1))
    /\ executed[Len(executed)] = VarStmt("x", <<Two>>)

\* C14: executing If evaluates its condition in one step, which creates no
\* scope, changes no binding and prints nothing; the statement executed next
\* is `then` when the value is truthy, `otherwise` when it is falsy and
\* present, and the statement after the If when it is falsy and absent, the
\* other branch never; when the condition fails neither branch is executed
\* and the error is raised.  var x; if (x) print x; else var x = 2; print x;
\* executes the else branch alone, in the scope of the If, and prints 2.
C14_IfExecutesOneBranch ==
    /\ [][(Executing("If") /\ executed' # executed)
             => LET c == eval(Current.condition, scopes, arena)
                    after == Tail(Top.stmts)
                IN  /\ executed' = Append(executed, Current)
                    /\ scopes' = scopes
                    /\ output' = output
                    /\ Len(stack') = Len(stack)
                    /\ IF c.k = "Err"
                       THEN status' = "failing" /\ outcome' = c /\ stack' = stack
                       ELSE /\ status' = "running"
                            /\ stack'[Len(stack)].entry = Top.entry
                            /\ stack'[Len(stack)].stmts =
                                  IF truthiness(c.v) THEN <<Current.then>> \o after
                                  ELSE IF Current.otherwise # <<>> THEN Current.otherwise \o after
                                  ELSE after]_vars
    /\ []((program = ElseProgram /\ status = "ok")
            => /\ executed = <<ElseProgram[1], ElseProgram[2], VarStmt("x", <<Two>>), ElseProgram[3]>>
               /\ output = << <<"2">> >>
               /\ scopes = define(new, "x", Number(F(2, 1))))

C14_Witness ==
    /\ program = ElseProgram
    /\ status = "ok"
    /\ Len(executed) = 4
    /\ output = << <<"2">> >>
    /\ scopes[1]["x"] = Number(F(2, 1))
====
